---- MODULE Spec2Model ----
(***************************************************************************)
(* FreshBitesDataGenerator (Dataset/Dataset.py): the synthetic supply      *)
(* chain dataset generator and its baseline-forecast calculator.           *)
(*                                                                         *)
(* Numbers.  Python floats are modelled in fixed point: a real x is the    *)
(* integer x * Scale (unit 1/1000), products are rescaled with \div, and   *)
(* int() is truncation toward zero (PyInt).  Quantities stored in the      *)
(* tables are plain integers, as in the code.  The 4-week mean and its     *)
(* 1.45 multiple are kept as exact fractions (sum / count, 29/20).         *)
(*                                                                         *)
(* Randomness.  np.random.random() is a draw in [0, 1), modelled as a      *)
(* fixed-point value in 0 .. Scale-1.  The per-row specifications draw     *)
(* every value of a grid (Draws) with \E; the whole-pipeline               *)
(* specifications keep the full tables and take the draws from the         *)
(* generator's hidden state rng, started from a nondeterministic seed.     *)
(*                                                                         *)
(* Runs.  Every per-run variable is a function over the run identifiers,   *)
(* and each action advances all runs together (the loops have fixed trip   *)
(* counts, so two runs are always at the same loop position).  Spec has    *)
(* one run; SpecPair has two, for statements comparing two runs.           *)
(*                                                                         *)
(* Specifications.  Spec / SpecPair: generate_all_data, one action per     *)
(* iteration of each generator's (outer) loop.  SpecBaseline:              *)
(* calculate_baseline_forecast on a given actuals table, which may lack a  *)
(* row or hold a zero.  SpecRow: one pass of a loop body at any loop       *)
(* position with every draw of the grid.                                   *)
(***************************************************************************)
EXTENDS Integers, Sequences, FiniteSets, TLC

VARIABLES
    pc,              \* the call generate_all_data is in, or the loop body a single pass is at
    week,            \* loop variable `week` of the method at pc (next value to process)
    pair,            \* position of the inner loops (index of the (sku, dc) pair or of the
                     \* supplier row); 1 between two iterations of an outer loop
    rng,             \* [run -> state of np.random's generator]
    forecast_df,     \* [run -> sequence of forecast rows]
    actuals_df,      \* [run -> sequence of actuals rows]
    inventory_df,    \* [run -> sequence of inventory rows]
    capacity_df,     \* [run -> sequence of capacity rows]
    suppliers_df,    \* [run -> sequence of supplier rows]
    deliveries_df,   \* [run -> sequence of delivery rows]
    baseline_df,     \* [run -> sequence of baseline rows]
    performance_df,  \* [run -> sequence of performance rows]
    lead_time,       \* [run -> local lead_time of generate_deliveries_data, 0 = unset]
    arrival_week     \* [run -> local arrival_week of generate_deliveries_data, 0 = unset]

vars == <<pc, week, pair, rng, forecast_df, actuals_df, inventory_df, capacity_df,
          suppliers_df, deliveries_df, baseline_df, performance_df,
          lead_time, arrival_week>>


----------------------------------------------------------------------------
(* Configuration set by __init__ *)

skus == <<"SKU001_Snacks", "SKU002_Beverages", "SKU003_Cheese", "SKU004_Bakery", "SKU005_Frozen">>

dcs == <<"Mumbai", "Kolkata">>

suppliers == <<"SUP001", "SUP002", "SUP003", "SUP004", "SUP005">>

weeks == 104

festival_weeks == {8, 16, 24, 32, 40, 48, 56, 64, 72, 80, 88, 96}

plant_capacity == 10000

\* sku_multipliers, in tenths
sku_multipliers ==
    [s \in {skus[i] : i \in 1..Len(skus)} |->
        CASE s = "SKU001_Snacks"    -> 12
          [] s = "SKU002_Beverages" -> 10
          [] s = "SKU003_Cheese"    -> 8
          [] s = "SKU004_Bakery"    -> 11
          [] s = "SKU005_Frozen"    -> 9]

----------------------------------------------------------------------------
(* Arithmetic *)

\* fixed-point unit: the real x is represented by x * Scale
Scale == 1000

Max(a, b) == IF a >= b THEN a ELSE b

\* int(x) of a fixed-point x: truncation toward zero
PyInt(x) == IF x >= 0 THEN x \div Scale ELSE -((-x) \div Scale)

\* product of two fixed-point values
Mul(a, b) == (a * b) \div Scale

\* np.sin(k * 2 * np.pi / 52), k = 0..51, in fixed point
SinTable52 ==
    <<0, 121, 239, 355, 465, 568, 663, 749, 823, 885, 935, 971, 993,
      1000, 993, 971, 935, 885, 823, 749, 663, 568, 465, 355, 239, 121,
      0, -121, -239, -355, -465, -568, -663, -749, -823, -885, -935, -971, -993,
      -1000, -993, -971, -935, -885, -823, -749, -663, -568, -465, -355, -239, -121>>

\* np.sin((week * 2 * np.pi) / 52)
Sin52(w) == SinTable52[(w % 52) + 1]

\* np.sin((week * 2 * np.pi) / 4)
Sin4(w) == CASE w % 4 = 0 -> 0
             [] w % 4 = 1 -> Scale
             [] w % 4 = 2 -> 0
             [] w % 4 = 3 -> -Scale

----------------------------------------------------------------------------
(* np.random *)

\* number of seeds the whole-pipeline runs start from
NumSeeds == 2

\* grid resolution of the draws enumerated by the per-row specifications
GridSteps == 2

\* the values np.random.random() takes in the per-row specifications:
\* 0, the grid points, and the largest value below 1
Draws == {(k * Scale) \div GridSteps : k \in 0..(GridSteps - 1)} \cup {Scale - 1}

\* the generator state after one draw
NextRng(s) == (37 * s + 11) % 1024

\* the value of the draw made in generator state s, in [0, 1)
Rand(s) == (s * Scale) \div 1024

\* generator state after n draws
RECURSIVE Skip(_, _)
Skip(s, n) == IF n = 0 THEN s ELSE Skip(NextRng(s), n - 1)

\* the k-th seed
Seed(k) == (389 * k + 7) % 1024

----------------------------------------------------------------------------
(* generate_base_demand, generate_forecast_data *)

\* r: the draw of the noise term
generate_base_demand(w, sku, r) ==
    LET seasonality    == Scale + (3 * Sin52(w)) \div 10
        weekly_pattern == Scale + Sin4(w) \div 10
        base_demand    == (500 * sku_multipliers[sku] * Mul(seasonality, weekly_pattern)) \div 10
        noise          == (r - Scale \div 2) * 100
    IN  Max(50 * Scale, base_demand + noise)

\* r: the draw of the uplift (used in a festival week only)
FestivalUplift(w, r) == IF w \in festival_weeks THEN (4 * Scale) \div 10 + r \div 10 ELSE 0

\* the row appended for (week, sku, dc); r1, r2: the draws of noise and uplift
ForecastRow(w, sku, dc, r1, r2) ==
    LET base_demand     == generate_base_demand(w, sku, r1)
        is_festival     == w \in festival_weeks
        festival_uplift == FestivalUplift(w, r2)
    IN  [week |-> w, sku |-> sku, dc |-> dc,
         forecast_qty  |-> PyInt(Mul(base_demand, Scale + festival_uplift)),
         festival_flag |-> IF is_festival THEN 1 ELSE 0]

\* the (sku, dc) pairs in the order of the two inner loops
SkuDcPairs == [i \in 1..(Len(skus) * Len(dcs)) |->
                 <<skus[((i - 1) \div Len(dcs)) + 1], dcs[((i - 1) % Len(dcs)) + 1]>>]

\* the inner loops of one week from pair i on, drawing from generator state s:
\* the rows appended and the generator state left behind
RECURSIVE ForecastWeek(_, _, _)
ForecastWeek(w, i, s) ==
    IF i > Len(SkuDcPairs) THEN [rows |-> <<>>, rng |-> s]
    ELSE LET fest == w \in festival_weeks
             s1   == NextRng(s)
             s2   == IF fest THEN NextRng(s1) ELSE s1
             row  == ForecastRow(w, SkuDcPairs[i][1], SkuDcPairs[i][2], Rand(s), Rand(s1))
             rest == ForecastWeek(w, i + 1, s2)
         IN  [rows |-> <<row>> \o rest.rows, rng |-> rest.rng]

----------------------------------------------------------------------------
(* generate_actuals_data *)

Variance(row) == IF row.festival_flag = 1 THEN (3 * Scale) \div 10 ELSE (15 * Scale) \div 100

\* line 62: noise = (random - 0.5) * 2 * variance
ActualNoise(row, r) == ((r - Scale \div 2) * 2 * Variance(row)) \div Scale

Min(a, b) == IF a <= b THEN a ELSE b

\* line 63 scaling by the noise alone, without the clamp
NoisedQtyUnclampedBug(row, r) == PyInt(row.forecast_qty * ActualNoise(row, r))

\* line 63 with min in place of max
NoisedQtyMinBug(row, r) == PyInt(Min(0, row.forecast_qty * (Scale + ActualNoise(row, r))))

\* line 63: int(max(0, forecast_qty * (1 + noise)))
NoisedQty(row, r) == PyInt(Max(0, row.forecast_qty * (Scale + ActualNoise(row, r))))

\* lines 66-69: the city bias
CityBias(dc, qty, r) ==
    IF dc = "Mumbai" THEN PyInt(qty * ((95 * Scale) \div 100 + r \div 10))
                     ELSE PyInt(qty * (Scale + r \div 20))

\* ActualRow writing the city of its first branch into every row
ActualRowCityBug(row, r1, r2) ==
    [week |-> row.week, sku |-> row.sku, dc |-> "Mumbai",
     actual_qty |-> CityBias(row.dc, NoisedQty(row, r1), r2)]

\* the row appended for a forecast row; r1, r2: the draws of noise and city bias
ActualRow(row, r1, r2) ==
    [week |-> row.week, sku |-> row.sku, dc |-> row.dc,
     actual_qty |-> CityBias(row.dc, NoisedQty(row, r1), r2)]

----------------------------------------------------------------------------
(* generate_inventory_data, generate_capacity_data, generate_suppliers_data *)

\* np.random.randint(10, 20) from the draw r
RandInt10To20(r) == 10 + (r * 10) \div Scale

\* r1..r4: the draws of plant, Mumbai and Kolkata stock and of the expiry offset.
\* days_remaining is (expiry_date - datetime.now()).days with a second, later
\* reading of the clock: one day short of the offset drawn.
InventoryRow(sku, r1, r2, r3, r4) ==
    [week0 |-> 0, sku |-> sku,
     plant_onhand   |-> PyInt(1000 * Scale + r1 * 2000),
     mumbai_onhand  |-> PyInt(300 * Scale + r2 * 700),
     kolkata_onhand |-> PyInt(500 * Scale + r3 * 1000),
     days_remaining |-> RandInt10To20(r4) - 1]

CapacityRow(w, r) ==
    [week |-> w,
     plant_capacity_units |-> PyInt(plant_capacity * ((9 * Scale) \div 10 + (r * 2) \div 10))]

\* the i-th supplier row; the three float columns are fixed-point values
SupplierRow(i, r1, r2, r3) ==
    [supplier_id |-> suppliers[i], sku |-> skus[i],
     avg_lead_time_wk |-> 2 * Scale + r1 * 3,
     lead_time_std    |-> Scale \div 2 + r2,
     on_time_prob     |-> (7 * Scale) \div 10 + r3 \div 4]

----------------------------------------------------------------------------
(* generate_deliveries_data *)

\* the release weeks running up to the last week before the final 5
DeliveryWeeksLongBug == 1..(weeks - 5)

\* range(1, self.weeks - 5)
DeliveryWeeks == 1..(weeks - 5 - 1)

\* np.random.random() < 0.6
DeliveryOccurs(r) == r < (6 * Scale) \div 10

\* max(1, int(avg_lead_time_wk + (random - 0.5) * lead_time_std * 2))
LeadTime(supplier, r) ==
    Max(1, PyInt(supplier.avg_lead_time_wk
                 + ((r - Scale \div 2) * supplier.lead_time_std * 2) \div Scale))

\* the lead time subtracted
ArrivalWeekSignBug(w, lt) == w - lt

ArrivalWeek(w, lt) == w + lt

\* arrival_week <= self.weeks
WithinHorizon(aw) == aw <= weeks

DeliveryRow(w, aw, supplier, r) ==
    [week_release |-> w, week_arrival |-> aw, sku |-> supplier.sku,
     qty |-> PyInt(200 * Scale + r * 800), supplier_id |-> supplier.supplier_id]

\* One pass of the inner loop body for one supplier with the draws r0 (the 60%
\* draw), r1 (lead time) and r2 (qty); lt, aw: the locals before it.
\* used: the number of draws consumed.
DeliveryAttempt(w, supplier, r0, r1, r2, lt, aw) ==
    IF ~DeliveryOccurs(r0)
    THEN [rows |-> <<>>, lead_time |-> lt, arrival_week |-> aw, used |-> 1]
    ELSE LET lt1 == LeadTime(supplier, r1)
             aw1 == ArrivalWeek(w, lt1)
         IN  IF WithinHorizon(aw1)
             THEN [rows |-> <<DeliveryRow(w, aw1, supplier, r2)>>,
                   lead_time |-> lt1, arrival_week |-> aw1, used |-> 3]
             ELSE [rows |-> <<>>, lead_time |-> lt1, arrival_week |-> aw1, used |-> 2]

\* the inner loop of one week from supplier row i on
RECURSIVE DeliveriesWeek(_, _, _, _, _, _)
DeliveriesWeek(w, sdf, i, s, lt, aw) ==
    IF i > Len(sdf) THEN [rows |-> <<>>, rng |-> s, lead_time |-> lt, arrival_week |-> aw]
    ELSE LET s1   == NextRng(s)
             s2   == NextRng(s1)
             a    == DeliveryAttempt(w, sdf[i], Rand(s), Rand(s1), Rand(s2), lt, aw)
             rest == DeliveriesWeek(w, sdf, i + 1, Skip(s, a.used), a.lead_time, a.arrival_week)
         IN  [rest EXCEPT !.rows = a.rows \o rest.rows]

----------------------------------------------------------------------------
(* calculate_baseline_forecast *)

\* the baseline loop starting one week late
BaselineWeeksLateBug == 6..weeks

\* range(5, self.weeks + 1)
BaselineWeeks == 5..weeks

RECURSIVE SeqSum(_)
SeqSum(q) == IF q = <<>> THEN 0 ELSE Head(q) + SeqSum(Tail(q))

\* the window reaching into the week being forecast
LastFourInclusiveBug(adf, w, sku, dc) ==
    LET sel == SelectSeq(adf, LAMBDA r : r.week >= w - 4 /\ r.week <= w /\ r.sku = sku /\ r.dc = dc)
    IN  [k \in 1..Len(sel) |-> sel[k].actual_qty]

\* lines 157-162: the actual_qty column of the rows of (sku, dc) in weeks w-4 .. w-1
LastFour(adf, w, sku, dc) ==
    LET sel == SelectSeq(adf, LAMBDA r : r.week >= w - 4 /\ r.week < w /\ r.sku = sku /\ r.dc = dc)
    IN  [k \in 1..Len(sel) |-> sel[k].actual_qty]

\* lines 171-175, before .iloc[0]: the actual_qty column of the rows of (w, sku, dc)
ActualValues(adf, w, sku, dc) ==
    LET sel == SelectSeq(adf, LAMBDA r : r.week = w /\ r.sku = sku /\ r.dc = dc)
    IN  [k \in 1..Len(sel) |-> sel[k].actual_qty]

\* three earlier weeks taken for enough
EnoughHistoryThreeBug(last_four) == Len(last_four) >= 3

\* len(last_four) >= 4
EnoughHistory(last_four) == Len(last_four) >= 4

\* last_four.mean(), as the exact fraction num / den
Mean(last_four) == [num |-> SeqSum(last_four), den |-> Len(last_four)]

\* the uplift applied to the truncated naive forecast
FestivalAdjustedOfTruncatedBug(naive, is_festival) ==
    IF is_festival THEN [num |-> (naive.num \div naive.den) * 29, den |-> 20] ELSE naive

\* naive_baseline * (1.45 if is_festival else 1), as an exact fraction
FestivalAdjusted(naive, is_festival) ==
    IF is_festival THEN [num |-> naive.num * 29, den |-> naive.den * 20] ELSE naive

\* int() of a non-negative fraction
IntFrac(f) == f.num \div f.den

Abs(x) == IF x >= 0 THEN x ELSE -x

\* abs(actual_value - forecast) / actual_value as the fraction num / den;
\* den = 0 is numpy's division by zero (inf or nan, no exception)
Mape(actual_value, f) ==
    [num |-> Abs(actual_value * f.den - f.num), den |-> f.den * actual_value]

BaselineRow(w, sku, dc, last_four, actual_value) ==
    LET naive_baseline    == Mean(last_four)
        festival_adjusted == FestivalAdjusted(naive_baseline, w \in festival_weeks)
    IN  [week |-> w, sku |-> sku, dc |-> dc,
         naive_forecast             |-> IntFrac(naive_baseline),
         festival_adjusted_forecast |-> IntFrac(festival_adjusted),
         actual                     |-> actual_value]

PerformanceRow(w, sku, dc, last_four, actual_value) ==
    LET naive_baseline    == Mean(last_four)
        festival_adjusted == FestivalAdjusted(naive_baseline, w \in festival_weeks)
    IN  [week |-> w, sku |-> sku, dc |-> dc,
         naive_mape    |-> Mape(actual_value, naive_baseline),
         festival_mape |-> Mape(actual_value, festival_adjusted),
         is_festival   |-> w \in festival_weeks]

\* The rows of adf the iteration of week w can read: both selections of lines
\* 157-162 and 171-175 keep only rows with week in w-4 .. w, so the inner loops
\* select from this slice exactly what they select from adf.
WeekSlice(adf, w) == SelectSeq(adf, LAMBDA r : r.week >= w - 4 /\ r.week <= w)

\* The inner loops of one week from pair i on: the rows appended to the two
\* lists, and whether .iloc[0] raised IndexError (the loops end there).
RECURSIVE BaselineWeek(_, _, _)
BaselineWeek(adf, w, i) ==
    IF i > Len(SkuDcPairs) THEN [baseline |-> <<>>, performance |-> <<>>, raised |-> FALSE]
    ELSE LET sku       == SkuDcPairs[i][1]
             dc        == SkuDcPairs[i][2]
             last_four == LastFour(adf, w, sku, dc)
             actual    == ActualValues(adf, w, sku, dc)
             rest      == BaselineWeek(adf, w, i + 1)
         IN  IF ~EnoughHistory(last_four) THEN rest
             ELSE IF actual = <<>> THEN [baseline |-> <<>>, performance |-> <<>>, raised |-> TRUE]
             ELSE [rest EXCEPT
                     !.baseline    = <<BaselineRow(w, sku, dc, last_four, actual[1])>> \o @,
                     !.performance = <<PerformanceRow(w, sku, dc, last_four, actual[1])>> \o @]

----------------------------------------------------------------------------
(* generate_all_data: the seven calls in order, one action per loop iteration *)

\* the values the loop variable `week` of the method p takes
LoopWeeks(p) ==
    CASE p = "forecast"   -> 1..weeks
      [] p = "capacity"   -> 1..weeks
      [] p = "deliveries" -> DeliveryWeeks
      [] p = "baseline"   -> BaselineWeeks
      [] OTHER            -> {}

\* the first value of the loop variable `week` of the method p
FirstWeek(p) ==
    IF LoopWeeks(p) = {} THEN 1
    ELSE CHOOSE w \in LoopWeeks(p) : \A v \in LoopWeeks(p) : w <= v

\* the runs advancing together
Runs == DOMAIN rng

Seeds == {Seed(k) : k \in 1..NumSeeds}

Empty(R) == [g \in R |-> <<>>]

InitRuns(R) ==
    /\ pc = "forecast"
    /\ week = FirstWeek("forecast")
    /\ pair = 1
    /\ rng \in [R -> Seeds]
    /\ forecast_df = Empty(R)
    /\ actuals_df = Empty(R)
    /\ inventory_df = Empty(R)
    /\ capacity_df = Empty(R)
    /\ suppliers_df = Empty(R)
    /\ deliveries_df = Empty(R)
    /\ baseline_df = Empty(R)
    /\ performance_df = Empty(R)
    /\ lead_time = [g \in R |-> 0]
    /\ arrival_week = [g \in R |-> 0]

Init == InitRuns({1})

InitPair == InitRuns({1, 2})

\* one iteration of the outer loop of generate_forecast_data
GenerateForecastWeek ==
    /\ pc = "forecast"
    /\ week \in LoopWeeks(pc)
    /\ LET res == [g \in Runs |-> ForecastWeek(week, 1, rng[g])]
       IN  /\ forecast_df' = [g \in Runs |-> forecast_df[g] \o res[g].rows]
           /\ rng' = [g \in Runs |-> res[g].rng]
    /\ week' = week + 1
    /\ UNCHANGED <<pair, pc, actuals_df, inventory_df, capacity_df, suppliers_df,
                   deliveries_df, baseline_df, performance_df, lead_time, arrival_week>>

\* one iteration of the loop of generate_actuals_data: the next forecast row
GenerateActualsRow ==
    /\ pc = "actuals"
    /\ \A g \in Runs : Len(actuals_df[g]) < Len(forecast_df[g])
    /\ actuals_df' = [g \in Runs |->
          Append(actuals_df[g],
                 ActualRow(forecast_df[g][Len(actuals_df[g]) + 1],
                           Rand(rng[g]), Rand(NextRng(rng[g]))))]
    /\ rng' = [g \in Runs |-> Skip(rng[g], 2)]
    /\ UNCHANGED <<pc, week, pair, forecast_df, inventory_df, capacity_df, suppliers_df,
                   deliveries_df, baseline_df, performance_df, lead_time, arrival_week>>

\* one iteration of the loop of generate_inventory_data: the next sku
GenerateInventoryRow ==
    /\ pc = "inventory"
    /\ \A g \in Runs : Len(inventory_df[g]) < Len(skus)
    /\ inventory_df' = [g \in Runs |->
          Append(inventory_df[g],
                 InventoryRow(skus[Len(inventory_df[g]) + 1],
                              Rand(rng[g]), Rand(Skip(rng[g], 1)),
                              Rand(Skip(rng[g], 2)), Rand(Skip(rng[g], 3))))]
    /\ rng' = [g \in Runs |-> Skip(rng[g], 4)]
    /\ UNCHANGED <<pc, week, pair, forecast_df, actuals_df, capacity_df, suppliers_df,
                   deliveries_df, baseline_df, performance_df, lead_time, arrival_week>>

\* one iteration of the loop of generate_capacity_data
GenerateCapacityWeek ==
    /\ pc = "capacity"
    /\ week \in LoopWeeks(pc)
    /\ capacity_df' = [g \in Runs |-> Append(capacity_df[g], CapacityRow(week, Rand(rng[g])))]
    /\ rng' = [g \in Runs |-> NextRng(rng[g])]
    /\ week' = week + 1
    /\ UNCHANGED <<pair, pc, forecast_df, actuals_df, inventory_df, suppliers_df,
                   deliveries_df, baseline_df, performance_df, lead_time, arrival_week>>

\* one iteration of the loop of generate_suppliers_data: the next supplier
GenerateSupplierRow ==
    /\ pc = "suppliers"
    /\ \A g \in Runs : Len(suppliers_df[g]) < Len(suppliers)
    /\ suppliers_df' = [g \in Runs |->
          Append(suppliers_df[g],
                 SupplierRow(Len(suppliers_df[g]) + 1,
                             Rand(rng[g]), Rand(Skip(rng[g], 1)), Rand(Skip(rng[g], 2))))]
    /\ rng' = [g \in Runs |-> Skip(rng[g], 3)]
    /\ UNCHANGED <<pc, week, pair, forecast_df, actuals_df, inventory_df, capacity_df,
                   deliveries_df, baseline_df, performance_df, lead_time, arrival_week>>

\* one iteration of the outer loop of generate_deliveries_data
GenerateDeliveriesWeek ==
    /\ pc = "deliveries"
    /\ week \in LoopWeeks(pc)
    /\ LET res == [g \in Runs |->
                     DeliveriesWeek(week, suppliers_df[g], 1, rng[g],
                                    lead_time[g], arrival_week[g])]
       IN  /\ deliveries_df' = [g \in Runs |-> deliveries_df[g] \o res[g].rows]
           /\ rng' = [g \in Runs |-> res[g].rng]
           /\ lead_time' = [g \in Runs |-> res[g].lead_time]
           /\ arrival_week' = [g \in Runs |-> res[g].arrival_week]
    /\ week' = week + 1
    /\ UNCHANGED <<pair, pc, forecast_df, actuals_df, inventory_df, capacity_df, suppliers_df,
                   baseline_df, performance_df>>

\* one iteration of the outer loop of calculate_baseline_forecast; an IndexError
\* raised by .iloc[0] in any run ends the method without a result
CalculateBaselineWeek ==
    /\ pc = "baseline"
    /\ week \in LoopWeeks(pc)
    /\ LET res == [g \in Runs |-> BaselineWeek(WeekSlice(actuals_df[g], week), week, 1)]
       IN  /\ baseline_df' = [g \in Runs |-> baseline_df[g] \o res[g].baseline]
           /\ performance_df' = [g \in Runs |-> performance_df[g] \o res[g].performance]
           /\ pc' = IF \E g \in Runs : res[g].raised THEN "raised" ELSE pc
    /\ week' = week + 1
    /\ UNCHANGED <<pair, rng, forecast_df, actuals_df, inventory_df, capacity_df, suppliers_df,
                   deliveries_df, lead_time, arrival_week>>

\* the loop of the method at pc has run out
LoopDone ==
    CASE pc = "forecast"   -> week \notin LoopWeeks(pc)
      [] pc = "actuals"    -> \A g \in Runs : Len(actuals_df[g]) >= Len(forecast_df[g])
      [] pc = "inventory"  -> \A g \in Runs : Len(inventory_df[g]) >= Len(skus)
      [] pc = "capacity"   -> week \notin LoopWeeks(pc)
      [] pc = "suppliers"  -> \A g \in Runs : Len(suppliers_df[g]) >= Len(suppliers)
      [] pc = "deliveries" -> week \notin LoopWeeks(pc)
      [] pc = "baseline"   -> week \notin LoopWeeks(pc)
      [] OTHER             -> FALSE

\* the call that follows in generate_all_data
NextCall(p) ==
    CASE p = "forecast"   -> "actuals"
      [] p = "actuals"    -> "inventory"
      [] p = "inventory"  -> "capacity"
      [] p = "capacity"   -> "suppliers"
      [] p = "suppliers"  -> "deliveries"
      [] p = "deliveries" -> "baseline"
      [] p = "baseline"   -> "done"

\* the method at pc returns its table and generate_all_data makes the next call
Return ==
    /\ LoopDone
    /\ pc' = NextCall(pc)
    /\ week' = FirstWeek(NextCall(pc))
    /\ UNCHANGED <<pair, rng, forecast_df, actuals_df, inventory_df, capacity_df, suppliers_df,
                   deliveries_df, baseline_df, performance_df, lead_time, arrival_week>>

Next ==
    \/ GenerateForecastWeek
    \/ GenerateActualsRow
    \/ GenerateInventoryRow
    \/ GenerateCapacityWeek
    \/ GenerateSupplierRow
    \/ GenerateDeliveriesWeek
    \/ CalculateBaselineWeek
    \/ Return

Spec == Init /\ [][Next]_vars

SpecPair == InitPair /\ [][Next]_vars

----------------------------------------------------------------------------
(* calculate_baseline_forecast on a given actuals table *)

\* the quantities the given tables are filled with, in rotation
QtyCycle == <<480, 510, 495, 505, 500, 501, 501, 501, 0, 497, 33, 1204>>

\* rotations of QtyCycle tried
MaxShift == 3

\* a given table may lack the row of one (week, pair), week in 1..MaxGapWeek
MaxGapWeek == 6

\* The table of every (week, sku, dc) in loop order, the quantity of (w, pair i)
\* being QtyCycle rotated by w + i + shift (shift 0 puts the head of QtyCycle at
\* week 4 of the first pair), without the row of (gapw, gapi).
InputActuals(shift, gapw, gapi) ==
    LET n    == Len(SkuDcPairs)
        full == [k \in 1..(weeks * n) |->
                   LET w == ((k - 1) \div n) + 1
                       i == ((k - 1) % n) + 1
                   IN  [week |-> w, sku |-> SkuDcPairs[i][1], dc |-> SkuDcPairs[i][2],
                        actual_qty |-> QtyCycle[((w + i + shift + 7) % Len(QtyCycle)) + 1]]]
    IN  SelectSeq(full, LAMBDA r : ~(r.week = gapw /\ <<r.sku, r.dc>> = SkuDcPairs[gapi]))

InitBaseline ==
    /\ pc = "baseline"
    /\ week = FirstWeek("baseline")
    /\ pair = 1
    /\ rng = [g \in {1} |-> 0]
    /\ forecast_df = Empty({1})
    /\ \E shift \in 0..MaxShift, gapw \in 0..MaxGapWeek, gapi \in {1, 2} :
          actuals_df = [g \in {1} |-> InputActuals(shift, gapw, gapi)]
    /\ inventory_df = Empty({1})
    /\ capacity_df = Empty({1})
    /\ suppliers_df = Empty({1})
    /\ deliveries_df = Empty({1})
    /\ baseline_df = Empty({1})
    /\ performance_df = Empty({1})
    /\ lead_time = [g \in {1} |-> 0]
    /\ arrival_week = [g \in {1} |-> 0]

NextBaseline == CalculateBaselineWeek \/ Return

SpecBaseline == InitBaseline /\ [][NextBaseline]_vars

----------------------------------------------------------------------------
(* One pass of a loop body at any loop position, with every draw of the grid *)

InitRow ==
    /\ \/ pc = "row_forecast" /\ week \in 1..weeks /\ pair \in 1..Len(SkuDcPairs)
       \/ pc = "row_supplier" /\ week \in DeliveryWeeks /\ pair \in 1..Len(suppliers)
    /\ rng = [g \in {1} |-> 0]
    /\ forecast_df = Empty({1})
    /\ actuals_df = Empty({1})
    /\ inventory_df = Empty({1})
    /\ capacity_df = Empty({1})
    /\ suppliers_df = Empty({1})
    /\ deliveries_df = Empty({1})
    /\ baseline_df = Empty({1})
    /\ performance_df = Empty({1})
    /\ lead_time = [g \in {1} |-> 0]
    /\ arrival_week = [g \in {1} |-> 0]

\* the loop body of generate_forecast_data for (week, pair)
RowForecast ==
    /\ pc = "row_forecast"
    /\ \E r1 \in Draws, r2 \in (IF week \in festival_weeks THEN Draws ELSE {0}) :
          forecast_df' = [g \in Runs |->
              <<ForecastRow(week, SkuDcPairs[pair][1], SkuDcPairs[pair][2], r1, r2)>>]
    /\ pc' = "row_actual"
    /\ UNCHANGED <<week, pair, rng, actuals_df, inventory_df, capacity_df, suppliers_df,
                   deliveries_df, baseline_df, performance_df, lead_time, arrival_week>>

\* the loop body of generate_actuals_data for that forecast row
RowActual ==
    /\ pc = "row_actual"
    /\ \E r1 \in Draws, r2 \in Draws :
          actuals_df' = [g \in Runs |-> <<ActualRow(forecast_df[g][1], r1, r2)>>]
    /\ pc' = "row_baseline"
    /\ UNCHANGED <<week, pair, rng, forecast_df, inventory_df, capacity_df, suppliers_df,
                   deliveries_df, baseline_df, performance_df, lead_time, arrival_week>>

\* the actuals rows of the four weeks before w for the pair, all generated with draw h
History(w, i, h) ==
    [k \in 1..4 |->
        ActualRow(ForecastRow(w - 5 + k, SkuDcPairs[i][1], SkuDcPairs[i][2], h, h), h, h)]

\* the loop body of calculate_baseline_forecast for that actuals row, its four
\* earlier weeks generated with the smallest or the largest draw
RowBaseline ==
    /\ pc = "row_baseline"
    /\ week \in BaselineWeeks
    /\ \E h \in {0, Scale - 1} :
          LET adf == History(week, pair, h) \o actuals_df[1]
              res == BaselineWeek(WeekSlice(adf, week), week, 1)
          IN  /\ actuals_df' = [g \in Runs |-> adf]
              /\ baseline_df' = [g \in Runs |-> res.baseline]
              /\ performance_df' = [g \in Runs |-> res.performance]
    /\ pc' = "row_done"
    /\ UNCHANGED <<week, pair, rng, forecast_df, inventory_df, capacity_df, suppliers_df,
                   deliveries_df, lead_time, arrival_week>>

\* the loop body of generate_suppliers_data for supplier `pair`
RowSupplier ==
    /\ pc = "row_supplier"
    /\ \E r1 \in Draws, r2 \in Draws, r3 \in Draws :
          suppliers_df' = [g \in Runs |-> <<SupplierRow(pair, r1, r2, r3)>>]
    /\ pc' = "row_delivery"
    /\ UNCHANGED <<week, pair, rng, forecast_df, actuals_df, inventory_df, capacity_df,
                   deliveries_df, baseline_df, performance_df, lead_time, arrival_week>>

\* the inner loop body of generate_deliveries_data for (week, that supplier)
RowDelivery ==
    /\ pc = "row_delivery"
    /\ \E r0 \in Draws, r1 \in Draws, r2 \in Draws :
          LET a == DeliveryAttempt(week, suppliers_df[1][1], r0, r1, r2, 0, 0)
          IN  /\ deliveries_df' = [g \in Runs |-> a.rows]
              /\ lead_time' = [g \in Runs |-> a.lead_time]
              /\ arrival_week' = [g \in Runs |-> a.arrival_week]
    /\ pc' = "row_done"
    /\ UNCHANGED <<week, pair, rng, forecast_df, actuals_df, inventory_df, capacity_df,
                   suppliers_df, baseline_df, performance_df>>

NextRow == RowForecast \/ RowActual \/ RowBaseline \/ RowSupplier \/ RowDelivery

SpecRow == InitRow /\ [][NextRow]_vars

----------------------------------------------------------------------------
(* Properties of the whole pipeline (Spec, SpecPair) *)

KeyOf(r) == <<r.week, r.sku, r.dc>>

KeySeq(df) == [k \in 1..Len(df) |-> KeyOf(df[k])]

KeySet(df) == {KeyOf(df[k]) : k \in 1..Len(df)}

\* weeks 1..104 x 5 SKUs x 2 locations
AllKeys == (1..104) \X {skus[i] : i \in 1..5} \X {dcs[i] : i \in 1..2}

\* C1: once generate_forecast_data and generate_actuals_data have run, the
\* forecast keys are all of weeks 1..104 x SKUs x locations, every forecast key
\* has exactly one actuals row (the actuals keys are pairwise distinct and are
\* the forecast keys), and no actuals key is absent from the forecast table.
C1_ForecastActualsOneToOne ==
    pc \notin {"forecast", "actuals"} =>
        \A g \in Runs :
            /\ KeySet(forecast_df[g]) = AllKeys
            /\ Len(forecast_df[g]) = Cardinality(AllKeys)
            /\ Cardinality(KeySet(actuals_df[g])) = Len(actuals_df[g])
            /\ KeySet(actuals_df[g]) = KeySet(forecast_df[g])

\* both generators have returned with their full tables
C1_Witness ==
    /\ pc = "inventory"
    /\ Len(forecast_df[1]) = 1040
    /\ Len(actuals_df[1]) = 1040
    /\ actuals_df[1][1040].week = 104

\* C8: generate_deliveries_data makes its draws for every release week 1..99
\* (all weeks before the final 5 of the horizon) and for no later week: while
\* the method runs, the loop body is due for week w exactly when w is in 1..99.
C8_DrawsForWeeks1To99 ==
    pc = "deliveries" => (week \in LoopWeeks(pc) <=> week \in 1..(weeks - 5))

\* the row counts of the eight tables of a run
RowCounts(g) ==
    <<Len(forecast_df[g]), Len(actuals_df[g]), Len(inventory_df[g]), Len(capacity_df[g]),
      Len(suppliers_df[g]), Len(deliveries_df[g]), Len(baseline_df[g]), Len(performance_df[g])>>

\* C6 as stated: two finished runs agree on the row count of every one of the
\* eight tables, and the forecast table has 1040 rows.
C6_SameRowCountsInAnyTwoRuns ==
    pc = "done" =>
        \A g1 \in Runs, g2 \in Runs :
            RowCounts(g1) = RowCounts(g2) /\ Len(forecast_df[g1]) = 104 * 5 * 2

\* C6 amended: two finished runs agree on the row count of every table except
\* deliveries: forecast 1040, actuals 1040, inventory 5, capacity 104, suppliers 5,
\* baseline_forecast 1000, performance 1000; deliveries has at most 98 * 5 rows.
C6_SameRowCountsExceptDeliveries ==
    pc = "done" =>
        \A g1 \in Runs, g2 \in Runs :
            /\ \A k \in {1, 2, 3, 4, 5, 7, 8} : RowCounts(g1)[k] = RowCounts(g2)[k]
            /\ RowCounts(g1)[1] = 104 * 5 * 2
            /\ RowCounts(g1)[2] = 104 * 5 * 2
            /\ RowCounts(g1)[3] = 5
            /\ RowCounts(g1)[4] = 104
            /\ RowCounts(g1)[5] = 5
            /\ RowCounts(g1)[7] = 100 * 5 * 2
            /\ RowCounts(g1)[8] = 100 * 5 * 2
            /\ RowCounts(g1)[6] <= 98 * 5

\* two finished runs whose deliveries tables differ in length
C6_Witness ==
    /\ pc = "done"
    /\ Runs = {1, 2}
    /\ Len(deliveries_df[1]) # Len(deliveries_df[2])
    /\ Len(baseline_df[1]) = Len(baseline_df[2])

----------------------------------------------------------------------------
(* Properties of single rows, for every draw of the grid (SpecRow) *)

\* C7: every forecast_qty and every actual_qty generated is a non-negative
\* integer, whatever the draws of base-demand noise, festival uplift, actuals
\* noise and city bias.
C7_QuantitiesNonNegativeIntegers ==
    \A g \in Runs :
        /\ \A k \in 1..Len(forecast_df[g]) : forecast_df[g][k].forecast_qty \in Nat
        /\ \A k \in 1..Len(actuals_df[g]) : actuals_df[g][k].actual_qty \in Nat

\* the row of week 39, SKU003_Cheese, Mumbai with every draw at 0: the lowest
\* forecast (202) and the lowest actual (162) of the horizon
C7_Witness ==
    /\ pc = "row_baseline"
    /\ week = 39
    /\ forecast_df[1][1].forecast_qty = 202
    /\ actuals_df[1][1].actual_qty = 162

\* C9: every generated forecast_qty is at least 50 and every generated
\* actual_qty is strictly positive, so neither MAPE division of
\* calculate_baseline_forecast on generated rows has a zero denominator.
C9_ActualsPositiveNoZeroDivision ==
    \A g \in Runs :
        /\ \A k \in 1..Len(forecast_df[g]) : forecast_df[g][k].forecast_qty >= 50
        /\ \A k \in 1..Len(actuals_df[g]) : actuals_df[g][k].actual_qty > 0
        /\ \A k \in 1..Len(performance_df[g]) :
              /\ performance_df[g][k].naive_mape.den # 0
              /\ performance_df[g][k].festival_mape.den # 0

\* a performance row computed from generated rows, the row of its week
\* generated with the lowest actual of a festival week's forecast
C9_Witness ==
    /\ pc = "row_done"
    /\ week \in festival_weeks
    /\ Len(performance_df[1]) = 1
    /\ Len(actuals_df[1]) = 5
    /\ 10 * actuals_df[1][5].actual_qty < 7 * forecast_df[1][1].forecast_qty

\* C2: every delivery row has week_arrival >= week_release and
\* week_arrival <= 104, for every supplier row and every draw.
C2_ArrivalWithinReleaseAndHorizon ==
    \A g \in Runs : \A k \in 1..Len(deliveries_df[g]) :
        /\ deliveries_df[g][k].week_arrival >= deliveries_df[g][k].week_release
        /\ deliveries_df[g][k].week_arrival <= 104

\* a delivery released in the last release week that arrives in week 104
C2_Witness ==
    /\ pc = "row_done"
    /\ Len(deliveries_df[1]) = 1
    /\ deliveries_df[1][1].week_release = 98
    /\ deliveries_df[1][1].week_arrival = 104

\* C10: supplier rows have avg_lead_time_wk in [2, 5) and lead_time_std in
\* [0.5, 1.5); every lead time computed is in 1..6; and every delivery that passes
\* the 60% draw passes the horizon check and is appended.
C10_LeadTimeInRangeNeverDiscarded ==
    \A g \in Runs :
        /\ \A k \in 1..Len(suppliers_df[g]) :
              /\ suppliers_df[g][k].avg_lead_time_wk >= 2 * Scale
              /\ suppliers_df[g][k].avg_lead_time_wk < 5 * Scale
              /\ 2 * suppliers_df[g][k].lead_time_std >= Scale
              /\ 2 * suppliers_df[g][k].lead_time_std < 3 * Scale
        /\ lead_time[g] # 0 =>
              /\ lead_time[g] \in 1..6
              /\ arrival_week[g] <= 104
              /\ pc = "row_done" => Len(deliveries_df[g]) = 1

\* the longest lead time in the last release week, appended
C10_Witness ==
    /\ pc = "row_done"
    /\ week = 98
    /\ lead_time[1] = 6
    /\ arrival_week[1] = 104
    /\ Len(deliveries_df[1]) = 1

----------------------------------------------------------------------------
(* Properties of calculate_baseline_forecast on a given table (SpecBaseline) *)

\* the rows of a table for week w
RowsOfWeek(df, w) == SelectSeq(df, LAMBDA r : r.week = w)

\* the rows of a table for the weeks w-4 .. w
RowsNear(df, w) == SelectSeq(df, LAMBDA r : r.week \in (w - 4)..w)

\* the indices of the rows of (sku, dc) in weeks w-4 .. w-1
PriorIdx(adf, w, sku, dc) ==
    {k \in 1..Len(adf) : adf[k].week \in (w - 4)..(w - 1) /\ adf[k].sku = sku /\ adf[k].dc = dc}

RECURSIVE SumQty(_, _)
SumQty(adf, S) ==
    IF S = {} THEN 0
    ELSE LET k == CHOOSE x \in S : TRUE IN adf[k].actual_qty + SumQty(adf, S \ {k})

\* the quantities of the rows of (w, sku, dc)
QtyAt(adf, w, sku, dc) ==
    {adf[k].actual_qty : k \in {x \in 1..Len(adf) : KeyOf(adf[x]) = <<w, sku, dc>>}}

\* round() of the fraction num / den >= 0: to the nearest integer, a tie to the even one
RoundHalfEven(num, den) ==
    LET q == num \div den
        r == num % den
    IN  IF 2 * r < den THEN q
        ELSE IF 2 * r > den THEN q + 1
        ELSE IF q % 2 = 0 THEN q ELSE q + 1

\* the method has ended, by returning or by raising
Ended == pc \in {"done", "raised"}

\* the weeks whose rows the properties below constrain in a state: the week
\* just processed (rows are only ever appended) and, once the method has
\* ended, every week
CheckedWeeks == IF Ended THEN 1..(week - 1) ELSE {week - 1}

\* C3 for the rows of week w of run g
C3_WeekOK(g, w) ==
    LET adf == RowsNear(actuals_df[g], w)
        bl  == RowsOfWeek(baseline_df[g], w)
        pf  == RowsOfWeek(performance_df[g], w)
    IN  \A i \in 1..Len(SkuDcPairs) :
            LET key == <<w, SkuDcPairs[i][1], SkuDcPairs[i][2]>>
                cnt == Cardinality(PriorIdx(adf, w, key[2], key[3]))
            IN  /\ (key \in KeySet(bl) \/ key \in KeySet(pf)) => (w >= 5 /\ cnt >= 4)
                /\ cnt < 4 => (key \notin KeySet(bl) /\ key \notin KeySet(pf))

\* C3: a baseline row and a performance row exist for (week, sku, dc) only if
\* week >= 5 and the actuals table holds at least 4 rows of (sku, dc) in weeks
\* week-4 .. week-1; a triple with fewer rows has no row in either table; and
\* the two tables hold the same keys in the same order, each once.
C3_RowsOnlyWithFourPriorWeeks ==
    pc \in {"baseline", "done", "raised"} =>
        \A g \in Runs :
            /\ \A w \in CheckedWeeks : C3_WeekOK(g, w)
            /\ \A k \in 1..Len(baseline_df[g]) : baseline_df[g][k].week >= 5
            /\ KeySeq(baseline_df[g]) = KeySeq(performance_df[g])
            /\ Cardinality(KeySet(baseline_df[g])) = Len(baseline_df[g])

\* week 5 processed on a table lacking a row in weeks 1..4: the pair with three
\* earlier rows was skipped, the nine others have their rows
C3_Witness ==
    /\ pc = "baseline"
    /\ week = 6
    /\ Len(baseline_df[1]) = 9
    /\ Len(performance_df[1]) = 9
    /\ \E i \in 1..Len(SkuDcPairs) :
          Cardinality(PriorIdx(actuals_df[1], 5, SkuDcPairs[i][1], SkuDcPairs[i][2])) = 3

\* C5 for the rows of week w of run g
C5_WeekOK(g, w) ==
    LET adf == RowsNear(actuals_df[g], w)
        bl  == RowsOfWeek(baseline_df[g], w)
    IN  \A k \in 1..Len(bl) :
            LET idx == PriorIdx(adf, w, bl[k].sku, bl[k].dc)
                n   == Cardinality(idx)
                sum == SumQty(adf, idx)
            IN  /\ n * bl[k].naive_forecast <= sum
                /\ sum < n * (bl[k].naive_forecast + 1)
                /\ bl[k].actual \in QtyAt(adf, w, bl[k].sku, bl[k].dc)
                /\ ( /\ w = 8
                     /\ QtyAt(adf, 4, bl[k].sku, bl[k].dc) = {480}
                     /\ QtyAt(adf, 5, bl[k].sku, bl[k].dc) = {510}
                     /\ QtyAt(adf, 6, bl[k].sku, bl[k].dc) = {495}
                     /\ QtyAt(adf, 7, bl[k].sku, bl[k].dc) = {505} )
                   => (bl[k].naive_forecast = 497 /\ bl[k].festival_adjusted_forecast = 721)

\* C5: in every baseline row, naive_forecast is the mean of the actual_qty of
\* the (sku, dc) rows of weeks week-4 .. week-1 truncated to an integer, and
\* `actual` is the actual_qty of (week, sku, dc); earlier actuals 480, 510, 495,
\* 505 in festival week 8 give naive_forecast 497 and festival_adjusted_forecast 721.
C5_NaiveIsTruncatedMean ==
    pc \in {"baseline", "done", "raised"} =>
        \A g \in Runs : \A w \in CheckedWeeks : C5_WeekOK(g, w)

\* the row of week 8, SKU001_Snacks, Mumbai on the table whose weeks 4..7 hold
\* 480, 510, 495, 505 for that pair
C5_Witness ==
    /\ pc = "baseline"
    /\ week = 9
    /\ \A k \in 4..7 : QtyAt(actuals_df[1], k, "SKU001_Snacks", "Mumbai")
                          = {<<480, 510, 495, 505>>[k - 3]}
    /\ \E k \in 1..Len(baseline_df[1]) :
          /\ KeyOf(baseline_df[1][k]) = <<8, "SKU001_Snacks", "Mumbai">>
          /\ baseline_df[1][k].naive_forecast = 497
          /\ baseline_df[1][k].festival_adjusted_forecast = 721

\* C4 as stated: the recorded festival_adjusted_forecast is the recorded
\* naive_forecast when is_festival is false, and the recorded naive_forecast
\* times 1.45 rounded to an integer otherwise.
C4_AdjustedIsRecordedNaiveTimes145 ==
    \A g \in Runs : \A k \in 1..Len(baseline_df[g]) :
        k <= Len(performance_df[g]) =>
            baseline_df[g][k].festival_adjusted_forecast =
                IF performance_df[g][k].is_festival
                THEN RoundHalfEven(29 * baseline_df[g][k].naive_forecast, 20)
                ELSE baseline_df[g][k].naive_forecast

\* C4 amended, for the rows of week w of run g
C4_WeekOK(g, w) ==
    LET adf == RowsNear(actuals_df[g], w)
        bl  == RowsOfWeek(baseline_df[g], w)
        pf  == RowsOfWeek(performance_df[g], w)
    IN  \A k \in 1..Len(bl) :
            LET idx  == PriorIdx(adf, w, bl[k].sku, bl[k].dc)
                n    == Cardinality(idx)
                sum  == SumQty(adf, idx)
                fest == bl[k].festival_adjusted_forecast
                low  == (29 * bl[k].naive_forecast) \div 20
            IN  /\ pf[k].is_festival = (w \in {8, 16, 24, 32, 40, 48, 56, 64, 72, 80, 88, 96})
                /\ ~pf[k].is_festival => fest = bl[k].naive_forecast
                /\ pf[k].is_festival =>
                      /\ 20 * n * fest <= 29 * sum
                      /\ 29 * sum < 20 * n * (fest + 1)
                      /\ fest \in low..(low + 2)

\* C4 amended: the recorded festival_adjusted_forecast is the recorded
\* naive_forecast when is_festival is false; otherwise it is the untruncated
\* mean of the earlier actuals times 1.45, truncated to an integer, which is
\* the truncation of naive_forecast * 1.45 or up to 2 more.
C4_AdjustedIsTruncatedMeanTimes145 ==
    pc \in {"baseline", "done", "raised"} =>
        \A g \in Runs : \A w \in CheckedWeeks : C4_WeekOK(g, w)

\* a festival-week row whose adjusted forecast exceeds the recorded naive
\* forecast times 1.45, rounded or truncated
C4_Witness ==
    /\ pc = "baseline"
    /\ \E k \in 1..Len(baseline_df[1]) :
          /\ performance_df[1][k].is_festival
          /\ baseline_df[1][k].festival_adjusted_forecast
                > RoundHalfEven(29 * baseline_df[1][k].naive_forecast, 20)

====
